---- MODULE Spec2Model ----
(***************************************************************************)
(* Warm-transfer backend (backend/src): the agent registry, the session    *)
(* store and the HTTP handlers that drive a transfer, as a state machine.  *)
(* The handlers are asyncio coroutines on one event loop: a handler runs   *)
(* without interruption up to an await of a network call (LiveKit room     *)
(* creation, an LLM request), and other handlers run while it is           *)
(* suspended there. Each action below is one such uninterrupted stretch.   *)
(***************************************************************************)
EXTENDS Integers, Sequences, FiniteSets, TLC

\* ---------------------------------------------------------------- bounds
MaxInFlight == 2
MaxClock == 1
MaxHistory == 3
MaxParticipants == 2
MaxRequests == 5

\* ---------------------------------------------------------------- values
None == "none"
NoSession == <<>>

Callers == {"cust1"}
Summaries == {"sum1"}
Explanations == {"expl1"}
Reasons == {"billing"}

\* AgentManager.create_default_agents: the agents in registration order
Registry == <<"agent_a_001", "agent_b_billing", "agent_b_technical",
              "agent_b_general">>
AgentIds == {Registry[k] : k \in 1..Len(Registry)}
RoleOf(id) == IF id = "agent_a_001" THEN "agent_a" ELSE "agent_b"
SpecialtyOf(id) == IF id = "agent_b_billing" THEN "Billing" ELSE
                   IF id = "agent_b_technical" THEN "Technical" ELSE
                   IF id = "agent_b_general" THEN "General Support" ELSE None
IsAgentA(id) == id \in AgentIds /\ RoleOf(id) = "agent_a"
IsAgentB(id) == id \in AgentIds /\ RoleOf(id) = "agent_b"

\* identities a request may name: the registered ones and an unregistered one
Identities == AgentIds \cup {"nobody"}

\* AgentState, CallState
IDLE == "idle"
IN_CALL == "in_call"
IN_TRANSFER == "in_transfer"
OFFLINE == "offline"
WAITING == "waiting"
CONNECTED == "connected"
TRANSFERRING == "transferring"
TRANSFERRED == "transferred"
ENDED == "ended"

\* AgentB.transfer_context before a transfer was received (None)
NoContext == [explanation |-> None, call_summary |-> None]

PlaceholderSummary == "Customer inquiry requiring specialized assistance"
DefaultReason == "Customer transfer request"

Slots == 1..MaxInFlight
Times == 0..MaxClock
SessionIds == Times \X Callers

VARIABLES
  now,             \* the wall clock, in seconds (datetime.now())
  agents,          \* AgentManager.agents: identity -> [state, cur, hist]
  requests,        \* AgentA.transfer_requests, per agent A: key -> record
  context,         \* AgentB.transfer_context, per agent B
  assignments,     \* AgentManager.agent_assignments: session_id -> identity
  sessions,        \* LiveKitService.active_sessions: session_id -> CallSession
  rooms,           \* the names of the rooms the LiveKit server has created
  slots,           \* the request handlers suspended on an await
  last,            \* the request that returned last, and its response
  issued           \* the number of requests received so far

vars == <<now, agents, requests, context, assignments, sessions, rooms,
          slots, last, issued>>

\* ------------------------------------------------------------- handlers
\* A suspended handler: where it waits (pc) and the locals it resumes with.
\* lsid and stale stand for the local `session`, a reference to the
\* CallSession object that active_sessions[lsid] held when it was read;
\* stale: active_sessions[lsid] has since been replaced by another object.
IdleSlot == [pc |-> "idle", op |-> None, sid |-> NoSession, a |-> None,
             b |-> None, reason |-> None, summary |-> None, expl |-> None,
             lsid |-> NoSession, stale |-> FALSE, room |-> <<>>]

\* a new request takes the first handler that is not suspended
Free(i) == /\ slots[i].pc = "idle"
           /\ \A j \in 1..(i - 1) : slots[j].pc # "idle"
           /\ issued < MaxRequests
           /\ issued' = issued + 1

\* a suspended handler resumes
At(i, pc) == slots[i].pc = pc /\ UNCHANGED issued

NoResponse == [op |-> None, res |-> None, sid |-> NoSession, a |-> None,
               tokens |-> {}]

\* a handler returns `res` to its client, having generated the access
\* tokens `tokens`
ReturnWith(i, op, sid, a, res, tokens) ==
  /\ slots' = [slots EXCEPT ![i] = IdleSlot]
  /\ last' = [op |-> op, res |-> res, sid |-> sid, a |-> a, tokens |-> tokens]

\* a handler that generated no token returns `res` to its client
Return(i, op, sid, a, res) == ReturnWith(i, op, sid, a, res, {})

Suspend(i, slot) ==
  /\ slots' = [slots EXCEPT ![i] = slot]
  /\ UNCHANGED last

\* ------------------------------------------------------------- registry
RECURSIVE FirstFrom(_, _)
\* the loop `for agent in self.agents.values()` from position k on: the
\* first agent that passes the test is returned, None after the last one
FirstFrom(k, S) == IF k > Len(Registry) THEN None
                   ELSE IF Registry[k] \in S THEN Registry[k]
                   ELSE FirstFrom(k + 1, S)
FirstIn(S) == FirstFrom(1, S)

\* AgentManager.get_available_agent_a
GetAvailableAgentAIgnoresState == FirstIn({id \in AgentIds : IsAgentA(id)})
GetAvailableAgentA ==
  FirstIn({id \in AgentIds : IsAgentA(id) /\ agents[id].state = IDLE})

\* AgentManager.get_available_agent_b
GetAvailableAgentBAnyState(specialty) ==
  FirstIn({id \in AgentIds : /\ IsAgentB(id)
                             /\ (specialty = None \/ SpecialtyOf(id) = specialty)})
GetAvailableAgentB(specialty) ==
  FirstIn({id \in AgentIds : /\ IsAgentB(id)
                             /\ agents[id].state = IDLE
                             /\ (specialty = None \/ SpecialtyOf(id) = specialty)})

\* ------------------------------------------------------------- sessions
\* f"session_{now:%Y%m%d_%H%M%S}_{caller_identity}"
SessionIdOf(t, caller) == <<t, caller>>

\* The LiveKit server names a room's sid; CreateRoom of a name that exists
\* returns that room. A room is identified here with its name.
CallRoom(sid) == <<"call", sid>>
TransferRoom(sid, t) == <<"transfer", sid, t>>
FinalRoom(sid) == <<"final", sid>>
NoRoom == <<>>

\* LiveKitService.generate_access_token: the identity, the room and the
\* grants of the token
GenerateAccessToken(identity, room_name, is_agent, can_publish, can_subscribe) ==
  [identity |-> identity, room |-> room_name,
   grants |-> {"room_join", "can_publish_data", "can_update_own_metadata"}
              \cup (IF can_publish THEN {"can_publish"} ELSE {})
              \cup (IF can_subscribe THEN {"can_subscribe"} ELSE {})
              \cup (IF is_agent THEN {"can_publish_sources", "recorder"} ELSE {})]

NewSession(caller, agentA, roomSid) ==
  [caller |-> caller, agent_a |-> agentA, agent_b |-> None,
   original_room |-> roomSid, transfer_room |-> NoRoom, state |-> WAITING,
   call_summary |-> None, transfer_reason |-> None, participants |-> <<>>]

Put(f, k, v) == [x \in DOMAIN f \cup {k} |-> IF x = k THEN v ELSE f[x]]

\* the suspended handlers that hold the object active_sessions[sid] lose it
\* when a new object is stored under sid
Replaced(sl, sid) ==
  [j \in Slots |->
     IF sl[j].lsid = sid /\ ~sl[j].stale
     THEN [sl[j] EXCEPT !.stale = TRUE,
                        !.b = IF sl[j].pc = "ct_room" /\ sid \in DOMAIN sessions
                              THEN sessions[sid].agent_b ELSE @]
     ELSE sl[j]]

\* AgentA.handle_incoming_call / AgentB.handle_incoming_call
HandleIncomingCall(id, sid) ==
  IF RoleOf(id) = "agent_a"
  THEN [state |-> IN_CALL, cur |-> sid, hist |-> <<"greeting">>]
  ELSE [agents[id] EXCEPT !.state = IN_CALL, !.cur = sid]

\* ---------------------------------------------------------- create_call
\* main.create_call up to the await of create_room
CreateCallStart(i, caller, hint) ==
  /\ Free(i)
  /\ LET aid == IF hint = None THEN GetAvailableAgentA ELSE hint
         sid == SessionIdOf(now, caller)
     IN IF aid = None
        THEN Return(i, "create", NoSession, None, "no_agent")
        ELSE Suspend(i, [IdleSlot EXCEPT !.pc = "cc_room", !.op = "create",
                                         !.sid = sid, !.a = aid])
  /\ UNCHANGED <<now, agents, requests, context, assignments, sessions, rooms>>

\* create_room returned: the session is stored, assigned and handed to the agent
CreateCallRoomOk(i) ==
  /\ At(i, "cc_room")
  /\ LET sid == slots[i].sid
         aid == slots[i].a
     IN /\ rooms' = rooms \cup {CallRoom(sid)}
        /\ sessions' = Put(sessions, sid, NewSession(sid[2], aid, CallRoom(sid)))
        /\ assignments' = Put(assignments, sid, aid)
        /\ agents' = IF aid \in AgentIds
                     THEN [agents EXCEPT ![aid] = HandleIncomingCall(aid, sid)]
                     ELSE agents
        /\ slots' = [Replaced(slots, sid) EXCEPT ![i] = IdleSlot]
        /\ last' = [op |-> "create", res |-> "ok", sid |-> sid, a |-> aid,
                    tokens |-> {}]
  /\ UNCHANGED <<now, requests, context>>

\* create_room raised: HTTP 500, nothing was stored
CreateCallRoomFail(i) ==
  /\ At(i, "cc_room")
  /\ Return(i, "create", slots[i].sid, slots[i].a, "error")
  /\ UNCHANGED <<now, agents, requests, context, assignments, sessions, rooms>>

\* ------------------------------------------------------------ join_call
\* LiveKitService.join_participant on the session object s
JoinParticipantKeepsState(s, identity, role) ==
  [s EXCEPT !.participants = Append(@, <<identity, role>>)]
JoinParticipantAnyRole(s, identity, role) ==
  [s EXCEPT !.participants = Append(@, <<identity, role>>),
            !.state = IF s.state = WAITING THEN CONNECTED ELSE @]
JoinParticipantAlwaysConnects(s, identity, role) ==
  [s EXCEPT !.participants = Append(@, <<identity, role>>),
            !.state = IF role = "agent_a" THEN CONNECTED ELSE @]
JoinParticipant(s, identity, role) ==
  [s EXCEPT !.participants = Append(@, <<identity, role>>),
            !.state = IF role = "agent_a" /\ s.state = WAITING
                      THEN CONNECTED ELSE @]

\* AgentRole(role) if role else None: a text that is no value of AgentRole
\* raises
Roles == {"agent_a", "agent_b"}
IsRole(role) == role = None \/ role \in Roles

\* main.join_call: no await in it suspends
JoinCall(i, sid, identity, role) ==
  /\ Free(i)
  /\ IF ~IsRole(role) \/ sid \notin DOMAIN sessions
     THEN /\ Return(i, "join", sid, identity, "error")
          /\ UNCHANGED sessions
     ELSE /\ Len(sessions[sid].participants) < MaxParticipants
          /\ sessions' = [sessions EXCEPT ![sid] =
                            JoinParticipant(@, identity, role)]
          /\ ReturnWith(i, "join", sid, identity, "ok",
                        {GenerateAccessToken(identity, CallRoom(sid),
                                             role # None, TRUE, TRUE)})
  /\ UNCHANGED <<now, agents, requests, context, assignments, rooms>>

\* ---------------------------------------------------- initiate_transfer
\* BaseAgent.generate_call_summary: the LLM's text, None when the call raised
SummaryOf(outcome) == IF outcome = "fail" THEN None ELSE outcome

\* AgentA.initiate_transfer, lines 130-132: the placeholder replaces a
\* missing summary
SummaryOrPlaceholder(outcome) ==
  IF SummaryOf(outcome) = None THEN PlaceholderSummary ELSE SummaryOf(outcome)

\* the except branch of AgentA.initiate_transfer
RollBackOmitted(ag) == ag
RollBack(ag) == [ag EXCEPT !.state = IN_CALL]

\* LiveKitService.initiate_warm_transfer, lines 163-166, before the room exists
MarkTransferringKeepsState(s, b, reason) ==
  [s EXCEPT !.agent_b = b, !.transfer_reason = reason]
MarkTransferring(s, b, reason) ==
  [s EXCEPT !.agent_b = b, !.transfer_reason = reason, !.state = TRANSFERRING]

\* main.initiate_transfer up to the await of the LLM in generate_call_summary.
\* An agent A with a current session has the greeting in its history, so
\* generate_call_summary always reaches the LLM.
InitiateStart(i, sid, aid, bid, reason) ==
  /\ Free(i)
  /\ LET b == IF bid \in AgentIds THEN bid ELSE GetAvailableAgentB(None)
         r == IF reason = None THEN DefaultReason ELSE reason
     IN IF aid \notin AgentIds
        THEN Return(i, "initiate", sid, aid, "agent_not_found") /\ UNCHANGED agents
        ELSE IF b = None
        THEN Return(i, "initiate", sid, aid, "no_agent") /\ UNCHANGED agents
        ELSE IF ~IsAgentA(aid)
        THEN Return(i, "initiate", sid, aid, "error") /\ UNCHANGED agents
        ELSE IF agents[aid].cur = NoSession
        THEN Return(i, "initiate", sid, aid, "failed") /\ UNCHANGED agents
        ELSE /\ agents' = [agents EXCEPT ![aid].state = IN_TRANSFER]
             /\ Suspend(i, [IdleSlot EXCEPT !.pc = "it_summary", !.op = "initiate",
                                            !.sid = sid, !.a = aid, !.b = b,
                                            !.reason = r])
  /\ UNCHANGED <<now, requests, context, assignments, sessions, rooms>>

\* the summary (or its failure) arrived: initiate_warm_transfer up to the
\* await of create_room
InitiateSummary(i, outcome) ==
  /\ At(i, "it_summary")
  /\ LET a == slots[i].a
         cur == agents[a].cur
     IN IF cur \notin DOMAIN sessions
        THEN /\ agents' = [agents EXCEPT ![a] = RollBack(@)]
             /\ Return(i, "initiate", slots[i].sid, a, "failed")
             /\ UNCHANGED sessions
        ELSE /\ sessions' = [sessions EXCEPT ![cur] =
                               MarkTransferring(@, slots[i].b, slots[i].reason)]
             /\ Suspend(i, [slots[i] EXCEPT !.pc = "it_room", !.lsid = cur,
                                            !.summary = SummaryOrPlaceholder(outcome),
                                            !.room = TransferRoom(cur, now)])
             /\ UNCHANGED agents
  /\ UNCHANGED <<now, requests, context, assignments, rooms>>

\* LiveKitService.get_transfer_room_tokens(session_id) on the store ss
TransferTokens(ss, sid) ==
  IF sid \notin DOMAIN ss THEN "error"
  ELSE IF ss[sid].transfer_room = NoRoom THEN "error"
  ELSE "ok"

\* the tokens get_transfer_room_tokens makes: one for agent A and one for
\* agent B of the session, both for the transfer room
TransferRoomTokens(ss, sid) ==
  IF TransferTokens(ss, sid) # "ok" THEN {}
  ELSE {GenerateAccessToken(id, ss[sid].transfer_room, TRUE, TRUE, TRUE) :
          id \in {ss[sid].agent_a, ss[sid].agent_b} \ {None}}

\* AgentA.initiate_transfer, lines 142-148
StoreRequest(reqs, key, b, reason, summary, room) ==
  Put(reqs, key, [agent_b |-> b, reason |-> reason, call_summary |-> summary,
                  transfer_room |-> room])

\* create_room returned: the room is written to the session, the request is
\* stored under the agent's current session, the tokens are made
InitiateRoomOk(i) ==
  /\ At(i, "it_room")
  /\ LET a == slots[i].a
         room == slots[i].room
         ss == IF slots[i].stale THEN sessions
               ELSE [sessions EXCEPT ![slots[i].lsid].transfer_room = room]
     IN /\ rooms' = rooms \cup {room}
        /\ sessions' = ss
        /\ requests' = [requests EXCEPT ![a] =
                          StoreRequest(@, agents[a].cur, slots[i].b,
                                       slots[i].reason, slots[i].summary, room)]
        /\ ReturnWith(i, "initiate", slots[i].sid, a,
                      TransferTokens(ss, slots[i].sid),
                      TransferRoomTokens(ss, slots[i].sid))
  /\ UNCHANGED <<now, agents, context, assignments>>

\* create_room raised: the except branch of AgentA.initiate_transfer
InitiateRoomFail(i) ==
  /\ At(i, "it_room")
  /\ agents' = [agents EXCEPT ![slots[i].a] = RollBack(@)]
  /\ Return(i, "initiate", slots[i].sid, slots[i].a, "failed")
  /\ UNCHANGED <<now, requests, context, assignments, sessions, rooms>>

\* ----------------------------------------------------- explain_transfer
\* main.explain_transfer up to the await of the LLM in
\* AgentA.explain_transfer_to_agent_b
ExplainStart(i, sid, aid, bid) ==
  /\ Free(i)
  /\ IF aid \notin AgentIds \/ bid \notin AgentIds
     THEN Return(i, "explain", sid, aid, "agent_not_found")
     ELSE IF ~IsAgentA(aid)
     THEN Return(i, "explain", sid, aid, "error")
     ELSE IF agents[aid].cur \notin DOMAIN requests[aid]
     THEN Return(i, "explain", sid, aid, "failed")
     ELSE /\ Len(agents[aid].hist) < MaxHistory
          /\ IsAgentB(bid) => Len(agents[bid].hist) + 2 <= MaxHistory
          /\ Suspend(i, [IdleSlot EXCEPT !.pc = "ex_explain", !.op = "explain",
                                         !.sid = sid, !.a = aid, !.b = bid])
  /\ UNCHANGED <<now, agents, requests, context, assignments, sessions, rooms>>

\* the explanation arrived: it is appended to agent A's history, and
\* main.explain_transfer goes on to the await of the LLM in generate_call_summary
ExplainOk(i, e) ==
  /\ At(i, "ex_explain")
  /\ Len(agents[slots[i].a].hist) < MaxHistory
  /\ agents' = [agents EXCEPT ![slots[i].a].hist = Append(@, "explanation")]
  /\ Suspend(i, [slots[i] EXCEPT !.pc = "ex_summary", !.expl = e])
  /\ UNCHANGED <<now, requests, context, assignments, sessions, rooms>>

\* the LLM raised: explain_transfer_to_agent_b returns None
ExplainFailDelivers(i) ==
  /\ At(i, "ex_explain")
  /\ context' = IF IsAgentB(slots[i].b)
                THEN [context EXCEPT ![slots[i].b] =
                        [explanation |-> None, call_summary |-> ""]]
                ELSE context
  /\ Return(i, "explain", slots[i].sid, slots[i].a, "failed")
  /\ UNCHANGED <<now, agents, requests, assignments, sessions, rooms>>
ExplainFail(i) ==
  /\ At(i, "ex_explain")
  /\ Return(i, "explain", slots[i].sid, slots[i].a, "failed")
  /\ UNCHANGED <<now, agents, requests, context, assignments, sessions, rooms>>

\* AgentB.receive_transfer_context: the two lines added to B's history
ReceiveTransferContextNoAck(ag) == [ag EXCEPT !.hist = Append(@, "transfer")]
ReceiveTransferContext(ag) ==
  [ag EXCEPT !.hist = @ \o <<"transfer", "acknowledgment">>]

\* the summary (or its failure) arrived: agent B receives the context
ExplainSummary(i, outcome) ==
  /\ At(i, "ex_summary")
  /\ LET b == slots[i].b
         summary == IF SummaryOf(outcome) = None THEN "" ELSE SummaryOf(outcome)
     IN IF IsAgentB(b)
        THEN /\ Len(agents[b].hist) + 2 <= MaxHistory
             /\ context' = [context EXCEPT ![b] =
                              [explanation |-> slots[i].expl,
                               call_summary |-> summary]]
             /\ agents' = [agents EXCEPT ![b] =
                             ReceiveTransferContext(@)]
             /\ Return(i, "explain", slots[i].sid, slots[i].a, "ok")
        ELSE /\ Return(i, "explain", slots[i].sid, slots[i].a, "error")
             /\ UNCHANGED <<agents, context>>
  /\ UNCHANGED <<now, requests, assignments, sessions, rooms>>

\* ---------------------------------------------------- complete_transfer
\* AgentA.complete_transfer, lines 201-203
LeaveCall(ag) == [ag EXCEPT !.state = IDLE, !.cur = NoSession]

\* LiveKitService.complete_transfer(session_id) on the store ss, up to the
\* await of create_room: "room" when it is reached, "error" when it raises
CompletePrecheck(ss, sid) ==
  IF sid \notin DOMAIN ss THEN "error"
  ELSE IF ss[sid].agent_b = None THEN "error"
  ELSE "room"

\* main.complete_transfer up to the await of the LLM in generate_call_summary
CompleteStart(i, sid, aid) ==
  /\ Free(i)
  /\ IF aid \notin AgentIds
     THEN Return(i, "complete", sid, aid, "agent_not_found") /\ UNCHANGED agents
     ELSE IF ~IsAgentA(aid)
     THEN Return(i, "complete", sid, aid, "error") /\ UNCHANGED agents
     ELSE IF agents[aid].cur = NoSession
     THEN Return(i, "complete", sid, aid, "failed") /\ UNCHANGED agents
     ELSE IF agents[aid].cur \in DOMAIN sessions
     THEN /\ Suspend(i, [IdleSlot EXCEPT !.pc = "ct_summary", !.op = "complete",
                                         !.sid = sid, !.a = aid,
                                         !.lsid = agents[aid].cur])
          /\ UNCHANGED agents
     ELSE /\ agents' = [agents EXCEPT ![aid] = LeaveCall(@)]
          /\ IF CompletePrecheck(sessions, sid) = "room"
             THEN Suspend(i, [IdleSlot EXCEPT !.pc = "ct_room", !.op = "complete",
                                              !.sid = sid, !.a = aid, !.lsid = sid])
             ELSE Return(i, "complete", sid, aid, "error")
  /\ UNCHANGED <<now, requests, context, assignments, sessions, rooms>>

\* the summary (or None) arrived: it is written to the session, agent A
\* leaves, and LiveKitService.complete_transfer runs up to create_room
CompleteSummary(i, outcome) ==
  /\ At(i, "ct_summary")
  /\ LET a == slots[i].a
         sid == slots[i].sid
         ss == IF slots[i].stale THEN sessions
               ELSE [sessions EXCEPT ![slots[i].lsid].call_summary =
                                        SummaryOf(outcome)]
     IN /\ sessions' = ss
        /\ agents' = [agents EXCEPT ![a] = LeaveCall(@)]
        /\ IF CompletePrecheck(ss, sid) = "room"
           THEN Suspend(i, [slots[i] EXCEPT !.pc = "ct_room", !.lsid = sid,
                                            !.stale = FALSE])
           ELSE Return(i, "complete", sid, a, "error")
  /\ UNCHANGED <<now, requests, context, assignments, rooms>>

\* LiveKitService.complete_transfer, lines 220-230: the caller's token and
\* agent B's token for the final room
FinalRoomTokens(caller, agentB, room) ==
  {GenerateAccessToken(caller, room, FALSE, TRUE, TRUE),
   GenerateAccessToken(agentB, room, TRUE, TRUE, TRUE)}

\* the final room exists, the two tokens are made, the session is TRANSFERRED
CompleteRoomOk(i) ==
  /\ At(i, "ct_room")
  /\ rooms' = rooms \cup {FinalRoom(slots[i].sid)}
  /\ sessions' = IF slots[i].stale THEN sessions
                 ELSE [sessions EXCEPT ![slots[i].lsid].state = TRANSFERRED]
  /\ ReturnWith(i, "complete", slots[i].sid, slots[i].a, "ok",
                FinalRoomTokens(slots[i].sid[2],
                                IF slots[i].stale THEN slots[i].b
                                ELSE sessions[slots[i].lsid].agent_b,
                                FinalRoom(slots[i].sid)))
  /\ UNCHANGED <<now, agents, requests, context, assignments>>

\* create_room raised
CompleteRoomFail(i) ==
  /\ At(i, "ct_room")
  /\ Return(i, "complete", slots[i].sid, slots[i].a, "error")
  /\ UNCHANGED <<now, agents, requests, context, assignments, sessions, rooms>>

\* ---------------------------------------------------------- end_session
\* LiveKitService.end_session on the store ss
EndedStore(ss, sid) ==
  IF sid \in DOMAIN ss THEN [ss EXCEPT ![sid].state = ENDED] ELSE ss

EndSession(i, sid) ==
  /\ Free(i)
  /\ sessions' = EndedStore(sessions, sid)
  /\ Return(i, "end", sid, None, "ok")
  /\ UNCHANGED <<now, agents, requests, context, assignments, rooms>>

\* ---------------------------------------------------------------- clock
Tick ==
  /\ now < MaxClock
  /\ now' = now + 1
  /\ UNCHANGED <<agents, requests, context, assignments, sessions, rooms,
                 slots, last, issued>>

\* ------------------------------------------------------------------ spec
Init ==
  /\ now = 0
  /\ agents = [id \in AgentIds |-> [state |-> IDLE, cur |-> NoSession, hist |-> <<>>]]
  /\ requests = [id \in {x \in AgentIds : IsAgentA(x)} |-> <<>>]
  /\ context = [id \in {x \in AgentIds : IsAgentB(x)} |-> NoContext]
  /\ assignments = <<>>
  /\ sessions = <<>>
  /\ rooms = {}
  /\ slots = [i \in Slots |-> IdleSlot]
  /\ last = NoResponse
  /\ issued = 0

\* the requests the clients send
Hints == {None}
JoinInputs == {<<"agent_a_001", "agent_a">>}
AgentANames == {"agent_a_001"}
Targets == {"agent_b_billing"}
SummaryOutcomes == Summaries \cup {"fail"}

Next ==
  \/ Tick
  \/ \E i \in Slots :
       \/ \E c \in Callers, h \in Hints : CreateCallStart(i, c, h)
       \/ CreateCallRoomOk(i)
       \/ CreateCallRoomFail(i)
       \/ \E sid \in SessionIds, j \in JoinInputs : JoinCall(i, sid, j[1], j[2])
       \/ \E sid \in SessionIds, a \in AgentANames, b \in Targets, r \in Reasons :
            InitiateStart(i, sid, a, b, r)
       \/ \E o \in SummaryOutcomes : InitiateSummary(i, o)
       \/ InitiateRoomOk(i)
       \/ InitiateRoomFail(i)
       \/ \E sid \in SessionIds, a \in AgentANames, b \in Targets :
            ExplainStart(i, sid, a, b)
       \/ \E e \in Explanations : ExplainOk(i, e)
       \/ ExplainFail(i)
       \/ \E o \in SummaryOutcomes : ExplainSummary(i, o)
       \/ \E sid \in SessionIds, a \in AgentANames : CompleteStart(i, sid, a)
       \/ \E o \in SummaryOutcomes : CompleteSummary(i, o)
       \/ CompleteRoomOk(i)
       \/ CompleteRoomFail(i)
       \/ \E sid \in SessionIds : EndSession(i, sid)

Spec == Init /\ [][Next]_vars

\* --------------------------------------------------------------- liveness
\* LiveKitService.create_room, line 40: the await of room_service.create_room
\* has no timeout of its own, so a request that the LiveKit server never
\* answers leaves the handler suspended
RoomAwaits == {"cc_room", "it_room", "ct_room"}
CreateRoomUnanswered(i) ==
  /\ slots[i].pc \in RoomAwaits
  /\ UNCHANGED issued
  /\ Suspend(i, [slots[i] EXCEPT !.pc = "unanswered"])
  /\ UNCHANGED <<now, agents, requests, context, assignments, sessions, rooms>>

\* the event loop resumes handler i with the answer, or the error, of the
\* call it awaits
Resume(i) ==
  \/ CreateCallRoomOk(i)
  \/ CreateCallRoomFail(i)
  \/ \E o \in SummaryOutcomes : InitiateSummary(i, o)
  \/ InitiateRoomOk(i)
  \/ InitiateRoomFail(i)
  \/ \E e \in Explanations : ExplainOk(i, e)
  \/ ExplainFail(i)
  \/ \E o \in SummaryOutcomes : ExplainSummary(i, o)
  \/ \E o \in SummaryOutcomes : CompleteSummary(i, o)
  \/ CompleteRoomOk(i)
  \/ CompleteRoomFail(i)

\* the requests of the transfer protocol, received one at a time by the
\* first handler
LiveNext ==
  \/ Tick
  \/ \E c \in Callers, h \in Hints : CreateCallStart(1, c, h)
  \/ \E sid \in SessionIds, j \in JoinInputs : JoinCall(1, sid, j[1], j[2])
  \/ \E sid \in SessionIds, a \in AgentANames, b \in Targets, r \in Reasons :
       InitiateStart(1, sid, a, b, r)
  \/ \E sid \in SessionIds, a \in AgentANames, b \in Targets :
       ExplainStart(1, sid, a, b)
  \/ \E sid \in SessionIds, a \in AgentANames : CompleteStart(1, sid, a)
  \/ \E sid \in SessionIds : EndSession(1, sid)
  \/ Resume(1)
  \/ CreateRoomUnanswered(1)

\* a call that is answered is answered after a finite time, and the event
\* loop then resumes the handler that awaits it
LiveSpec == Init /\ [][LiveNext]_vars /\ WF_vars(Resume(1))

\* ================================================================ claims
\* what a step of the system did, read off the handlers and the response
\* ------------------------------------------------------ every join
\* One handler at a time, with the joins that Spec leaves out: any identity
\* with no role, either role, or a text that is no role.
WideJoinInputs == (Callers \cup {"agent_a_001", "agent_b_billing"})
                    \X {None, "agent_a", "agent_b", "supervisor"}

JoinNext ==
  \/ Tick
  \/ \E c \in Callers, h \in Hints : CreateCallStart(1, c, h)
  \/ \E sid \in SessionIds, j \in WideJoinInputs : JoinCall(1, sid, j[1], j[2])
  \/ \E sid \in SessionIds, a \in AgentANames, b \in Targets, r \in Reasons :
       InitiateStart(1, sid, a, b, r)
  \/ \E sid \in SessionIds, a \in AgentANames, b \in Targets :
       ExplainStart(1, sid, a, b)
  \/ \E sid \in SessionIds, a \in AgentANames : CompleteStart(1, sid, a)
  \/ \E sid \in SessionIds : EndSession(1, sid)
  \/ Resume(1)

JoinSpec == Init /\ [][JoinNext]_vars

\* ------------------------------------------------- every agent selection
\* One handler at a time, with the requests that make agents B busy and
\* that select one: a createSession whose hint names any identity, and an
\* initiateTransfer to an identity that is not registered.
WideHints == {None} \cup Identities
WideTargets == Targets \cup {"nobody"}

SelectNext ==
  \/ Tick
  \/ \E c \in Callers, h \in WideHints : CreateCallStart(1, c, h)
  \/ \E sid \in SessionIds, j \in JoinInputs : JoinCall(1, sid, j[1], j[2])
  \/ \E sid \in SessionIds, a \in AgentANames, b \in WideTargets, r \in Reasons :
       InitiateStart(1, sid, a, b, r)
  \/ \E sid \in SessionIds, a \in AgentANames, b \in Targets :
       ExplainStart(1, sid, a, b)
  \/ \E sid \in SessionIds, a \in AgentANames : CompleteStart(1, sid, a)
  \/ \E sid \in SessionIds : EndSession(1, sid)
  \/ Resume(1)

SelectSpec == Init /\ [][SelectNext]_vars

Resumes(i, pc) == slots[i].pc = pc /\ slots'[i].pc # pc
Returns(i, op, res) ==
  /\ slots[i].op = op
  /\ slots[i].pc # "idle"
  /\ slots'[i].pc = "idle"
  /\ last'.op = op
  /\ last'.res = res
\* handler i receives a request `op` for session sid and agent a
Receives(i, op, sid, a) ==
  /\ slots[i].pc = "idle"
  /\ \A j \in 1..(i - 1) : slots[j].pc # "idle"
  /\ issued' = issued + 1
  /\ \/ slots'[i].pc # "idle" /\ slots'[i].op = op /\ slots'[i].sid = sid
        /\ slots'[i].a = a
     \/ slots'[i].pc = "idle" /\ last'.op = op /\ last'.sid = sid /\ last'.a = a
Live(s) == s \in DOMAIN sessions /\ sessions[s].state # ENDED

\* C1: no two sessions that are both not ENDED have the same agent_a.
C1_ExactlyOnceReservation ==
  \A s, t \in DOMAIN sessions :
    (s # t /\ Live(s) /\ Live(t)) => sessions[s].agent_a # sessions[t].agent_a

\* C2: the state of a stored session never moves backwards in
\* WAITING, CONNECTED, TRANSFERRING, TRANSFERRED, and never leaves ENDED.
StateRank(st) == CASE st = WAITING -> 1 [] st = CONNECTED -> 2
                   [] st = TRANSFERRING -> 3 [] st = TRANSFERRED -> 4
                   [] st = ENDED -> 5
\* the step stores a new session object under s (create_call)
Creates(s) == \E i \in Slots : /\ Resumes(i, "cc_room")
                               /\ slots[i].sid = s
                               /\ last'.res = "ok"
C2_StateSequence ==
  [][\A s \in DOMAIN sessions :
       Creates(s) \/ StateRank(sessions'[s].state) >= StateRank(sessions[s].state)]_vars

\* C3: an initiateTransfer request for a session that is not CONNECTED
\* returns an error at once and changes neither agents, sessions, transfer
\* records nor rooms.
C3_InitiateNeedsConnected ==
  [][\A i \in Slots, s \in DOMAIN sessions, a \in AgentIds :
       (Receives(i, "initiate", s, a) /\ agents[a].cur = s
          /\ sessions[s].state # CONNECTED)
       => (/\ slots'[i].pc = "idle"
           /\ last'.res # "ok"
           /\ UNCHANGED <<agents, sessions, requests, rooms>>)]_vars

\* C4: while completeTransfer runs for a session on which no transfer has
\* been initiated, no step of it changes agent A or the session, and it
\* does not return success.
NoTransferInitiated(s, a) ==
  /\ s \in DOMAIN sessions
  /\ sessions[s].agent_b = None
  /\ sessions[s].transfer_room = NoRoom
  /\ s \notin DOMAIN requests[a]
C4_CompleteWithoutInitiate ==
  [][\A i \in Slots :
       (/\ Resumes(i, "ct_summary")
        /\ slots[i].sid = slots[i].lsid
        /\ ~slots[i].stale
        /\ NoTransferInitiated(slots[i].sid, slots[i].a))
       => (/\ agents'[slots[i].a] = agents[slots[i].a]
           /\ sessions'[slots[i].sid] = sessions[slots[i].sid]
           /\ ~Returns(i, "complete", "ok"))]_vars

\* C5: two initiateTransfer calls on the same session are never both past
\* their checks with a transfer room requested for that session.
C5_OneInitiatePerSession ==
  \A i, j \in Slots :
    (i # j /\ slots[i].pc = "it_room" /\ slots[j].pc = "it_room")
    => slots[i].lsid # slots[j].lsid

\* C6: an initiateTransfer that resumes from room creation on a session
\* that was ended meanwhile changes neither the session nor the transfer
\* records, and returns an error.
C6_StaleResultDiscarded ==
  [][\A i \in Slots :
       (/\ Resumes(i, "it_room")
        /\ ~slots[i].stale
        /\ sessions[slots[i].lsid].state = ENDED)
       => (/\ sessions'[slots[i].lsid] = sessions[slots[i].lsid]
           /\ requests' = requests
           /\ ~Returns(i, "initiate", "ok"))]_vars

\* C7: when completeTransfer(s, a) returns success, agent a is IDLE with
\* no current session, s is TRANSFERRED and s.agent_b is a transfer target
\* that an initiateTransfer named.
C7_CompletePostcondition ==
  [][\A i \in Slots :
       Returns(i, "complete", "ok")
       => (/\ agents'[slots[i].a].state = IDLE
           /\ agents'[slots[i].a].cur = NoSession
           /\ sessions'[slots[i].sid].state = TRANSFERRED
           /\ sessions'[slots[i].sid].agent_b \in Targets)]_vars

\* C8: when initiateTransfer fails at room creation on a session for which
\* no transfer room was ever stored, the session is left without agent_b,
\* transfer_reason and transfer record, and not TRANSFERRING.
C8_FailedPhaseCommitsNothing ==
  [][\A i \in Slots :
       (/\ Resumes(i, "it_room")
        /\ Returns(i, "initiate", "failed")
        /\ ~slots[i].stale
        /\ sessions[slots[i].lsid].transfer_room = NoRoom
        /\ slots[i].lsid \notin DOMAIN requests[slots[i].a])
       => (/\ sessions'[slots[i].lsid].agent_b = None
           /\ sessions'[slots[i].lsid].transfer_reason = None
           /\ sessions'[slots[i].lsid].state # TRANSFERRING
           /\ slots[i].lsid \notin DOMAIN requests'[slots[i].a])]_vars

\* C9: when room creation fails in initiateTransfer, agent A is back in
\* IN_CALL with the current session it had, and the call returns its error,
\* not a room.
C9_RoomFailureRollsBack ==
  [][\A i \in Slots :
       (Resumes(i, "it_room") /\ Returns(i, "initiate", "failed"))
       => (/\ agents'[slots[i].a].state = IN_CALL
           /\ agents'[slots[i].a].cur = agents[slots[i].a].cur
           /\ UNCHANGED <<sessions, requests, rooms>>)]_vars
\* a failed room creation on a CONNECTED session has been rolled back
C9_Witness ==
  /\ last.op = "initiate"
  /\ last.res = "failed"
  /\ last.sid \in DOMAIN sessions
  /\ agents[last.a].state = IN_CALL
  /\ agents[last.a].cur = last.sid
  /\ sessions[last.sid].participants # <<>>
  /\ sessions[last.sid].agent_b # None
  /\ sessions[last.sid].transfer_room = NoRoom

\* C10: when completeTransfer fails at the creation of the final room for a
\* session with a transfer record, agent A is still IN_TRANSFER with its
\* current session, the session is not TRANSFERRED and the record is kept.
C10_CompleteFailureKeepsState ==
  [][\A i \in Slots :
       (/\ Resumes(i, "ct_room")
        /\ Returns(i, "complete", "error")
        /\ slots[i].sid \in DOMAIN requests[slots[i].a])
       => (/\ agents'[slots[i].a].state = IN_TRANSFER
           /\ agents'[slots[i].a].cur # NoSession
           /\ sessions'[slots[i].sid].state # TRANSFERRED
           /\ slots[i].sid \in DOMAIN requests'[slots[i].a])]_vars

\* C11: when the Summarizer failed in initiateTransfer and the transfer
\* room was created, the call returns success, the transfer record of the
\* session holds the placeholder summary and the room, agent A is
\* IN_TRANSFER and the session is TRANSFERRING.
C11_SummarizerFailureTolerated ==
  [][\A i \in Slots :
       (/\ Resumes(i, "it_room")
        /\ slots[i].summary = PlaceholderSummary
        /\ slots[i].sid = slots[i].lsid
        /\ sessions[slots[i].sid].state # ENDED
        /\ last'.res # "failed")
       => (/\ Returns(i, "initiate", "ok")
           /\ slots[i].sid \in DOMAIN requests'[slots[i].a]
           /\ requests'[slots[i].a][slots[i].sid].call_summary = PlaceholderSummary
           /\ requests'[slots[i].a][slots[i].sid].transfer_room = slots[i].room
           /\ slots[i].room \in rooms'
           /\ agents'[slots[i].a].state = IN_TRANSFER
           /\ sessions'[slots[i].sid].state = TRANSFERRING)]_vars

\* C12: when the Summarizer fails to explain in explainTransfer, the call
\* returns its error and the step changes neither the transfer context,
\* the transcript or the state of any agent B nor the transcript of agent
\* A; receiving the request changed none of them either.
C12_ExplainFailureBriefsNobody ==
  [][\A i \in Slots :
       (\/ slots[i].pc = "idle" /\ slots'[i].pc = "ex_explain"
        \/ Resumes(i, "ex_explain") /\ Returns(i, "explain", "failed"))
       => UNCHANGED <<agents, context, requests, sessions, rooms>>]_vars
\* an explainTransfer on a session with a transfer record failed, and
\* agent B has no context
C12_Witness ==
  /\ last.op = "explain"
  /\ last.res = "failed"
  /\ last.a \in DOMAIN requests
  /\ last.sid = agents[last.a].cur
  /\ last.sid \in DOMAIN requests[last.a]
  /\ \A b \in DOMAIN context : context[b] = NoContext /\ agents[b].hist = <<>>

\* C13: when initiateTransfer(s, b, reason) returns success for a session
\* s that agent A has joined, agent A is IN_TRANSFER, s is TRANSFERRING
\* with agent_b = b, transfer_reason = reason and the transfer room that
\* was created, and the transfer record under s holds b, the reason, the
\* summary and that room.
C13_InitiatePostcondition ==
  [][\A i \in Slots :
       (/\ Returns(i, "initiate", "ok")
        /\ slots[i].sid = slots[i].lsid
        /\ sessions[slots[i].sid].participants # <<>>)
       => (/\ agents'[slots[i].a].state = IN_TRANSFER
           /\ sessions'[slots[i].sid].state = TRANSFERRING
           /\ sessions'[slots[i].sid].agent_b = slots[i].b
           /\ sessions'[slots[i].sid].transfer_reason = slots[i].reason
           /\ sessions'[slots[i].sid].transfer_room = slots[i].room
           /\ slots[i].room \in rooms'
           /\ slots[i].sid \in DOMAIN requests'[slots[i].a]
           /\ requests'[slots[i].a][slots[i].sid] =
                [agent_b |-> slots[i].b, reason |-> slots[i].reason,
                 call_summary |-> slots[i].summary,
                 transfer_room |-> slots[i].room])]_vars

\* C14: when explainTransfer(s, a, b) returns success, agent B is IN_CALL
\* and has a transfer context.
C14_ExplainPostcondition ==
  [][\A i \in Slots :
       Returns(i, "explain", "ok")
       => (/\ agents'[slots[i].b].state = IN_CALL
           /\ context'[slots[i].b] # NoContext)]_vars

\* C15: when createSession has returned a session with the idle agent A it
\* assigned, and the next request, with no other request in progress, is
\* that agent's join with role A, then after the join the session is
\* CONNECTED, and the agent is IN_CALL in that session with a transcript
\* of exactly one line.
C15_CreateThenJoin ==
  [][\A i \in Slots, s \in DOMAIN sessions :
       (/\ last.op = "create"
        /\ last.res = "ok"
        /\ last.sid = s
        /\ \A j \in Slots : slots[j].pc = "idle"
        /\ Receives(i, "join", s, last.a)
        /\ IsAgentA(last.a)
        /\ sessions'[s].participants = <<<<last.a, "agent_a">>>>)
       => (/\ sessions'[s].state = CONNECTED
           /\ agents'[last.a].state = IN_CALL
           /\ agents'[last.a].cur = s
           /\ Len(agents'[last.a].hist) = 1)]_vars
\* agent A has joined the session that createSession assigned to it
C15_Witness ==
  /\ last.op = "join"
  /\ last.res = "ok"
  /\ last.sid \in DOMAIN sessions
  /\ sessions[last.sid].agent_a = last.a
  /\ sessions[last.sid].participants = <<<<last.a, "agent_a">>>>
  /\ sessions[last.sid].state = CONNECTED
  /\ agents[last.a].state = IN_CALL
  /\ agents[last.a].cur = last.sid
  /\ agents[last.a].hist = <<"greeting">>

\* C16: every agent is IN_CALL or IN_TRANSFER exactly when it has a
\* current session.
C16_BusyIffCurrentSession ==
  \A id \in AgentIds :
    (agents[id].state \in {IN_CALL, IN_TRANSFER}) <=> (agents[id].cur # NoSession)

\* C17: in every stored session, agent_b is set exactly when the state is
\* TRANSFERRING or TRANSFERRED.
C17_AgentBIffTransferring ==
  \A s \in DOMAIN sessions :
    (sessions[s].agent_b # None) <=> (sessions[s].state \in {TRANSFERRING, TRANSFERRED})
\* C17, amended: in every stored session, a state of TRANSFERRING or
\* TRANSFERRED implies that agent_b is set, and agent_b is set only in the
\* states TRANSFERRING, TRANSFERRED and ENDED.
C17_AgentBIffTransferBegun ==
  \A s \in DOMAIN sessions :
    /\ (sessions[s].state \in {TRANSFERRING, TRANSFERRED}) => (sessions[s].agent_b # None)
    /\ (sessions[s].agent_b # None)
         => (sessions[s].state \in {TRANSFERRING, TRANSFERRED, ENDED})
\* a session was ended after its transfer had begun
C17_Witness ==
  \E s \in DOMAIN sessions :
    /\ sessions[s].state = ENDED
    /\ sessions[s].agent_b # None
    /\ last.op = "end"
    /\ last.sid = s

\* C18: every change of an agent's state is one of IDLE to IN_CALL,
\* IN_CALL to IN_TRANSFER (role A, with a current session), IN_TRANSFER to
\* IDLE (role A), IN_CALL to IDLE (role B) or any state to OFFLINE; a step
\* that makes none of these changes leaves the agent's state and current
\* session as they were.
ListedTransition(id, from, to) ==
  \/ from = IDLE /\ to = IN_CALL
  \/ from = IN_CALL /\ to = IN_TRANSFER /\ IsAgentA(id) /\ agents[id].cur # NoSession
  \/ from = IN_TRANSFER /\ to = IDLE /\ IsAgentA(id)
  \/ from = IN_CALL /\ to = IDLE /\ IsAgentB(id)
  \/ to = OFFLINE
C18_ListedTransitionsOnly ==
  [][\A id \in AgentIds :
       IF agents'[id].state # agents[id].state
       THEN ListedTransition(id, agents[id].state, agents'[id].state)
       ELSE agents'[id].cur = agents[id].cur]_vars

\* C19: no step changes a field of a stored session that is ENDED (a
\* createSession that stores a new session under the same id aside).
C19_EndedIsImmutable ==
  [][\A s \in DOMAIN sessions :
       (sessions[s].state = ENDED /\ ~Creates(s))
       => sessions'[s] = sessions[s]]_vars

\* C20: every request that a handler has received is answered after a
\* finite time, also when the room request it makes is never answered.
C20_EveryInvocationReturns ==
  \A i \in Slots : (slots[i].pc # "idle") ~> (slots[i].pc = "idle")

\* C21: a createSession request without an agent hint that is received
\* when no agent A is IDLE returns the no-agent error at once, requests no
\* room, and changes no session, room, agent, assignment or transfer
\* record.
C21_NoAgentAvailable ==
  [][\A i \in Slots :
       (/\ Receives(i, "create", NoSession, None)
           \/ \E s \in SessionIds, a \in AgentIds : Receives(i, "create", s, a)
        /\ \A id \in AgentIds : IsAgentA(id) => agents[id].state # IDLE)
       => (/\ slots'[i].pc = "idle"
           /\ last'.res = "no_agent"
           /\ UNCHANGED <<agents, sessions, rooms, assignments, requests,
                          context>>)]_vars
\* createSession was refused while agent A was in a call
C21_Witness ==
  /\ last.op = "create"
  /\ last.res = "no_agent"
  /\ \A id \in AgentIds : IsAgentA(id) => agents[id].state # IDLE
  /\ sessions # <<>>

\* C22: an explainTransfer request for a session that has no transfer
\* record returns an error at once, without a call of the Summarizer, and
\* changes no agent's transcript, state or transfer context.
C22_ExplainNeedsRecord ==
  [][\A i \in Slots, s \in SessionIds, a \in AgentIds :
       (/\ Receives(i, "explain", s, a)
        /\ IsAgentA(a)
        /\ s \notin DOMAIN requests[a])
       => (/\ slots'[i].pc = "idle"
           /\ last'.res # "ok"
           /\ UNCHANGED <<agents, context>>)]_vars

\* C23: a createSession whose session id is that of a stored session
\* does not succeed, and leaves that session, its agent and its assignment
\* as they were.
C23_SessionIdUnique ==
  [][\A i \in Slots :
       (Resumes(i, "cc_room") /\ slots[i].sid \in DOMAIN sessions)
       => (/\ last'.res # "ok"
           /\ sessions'[slots[i].sid] = sessions[slots[i].sid]
           /\ assignments'[slots[i].sid] = assignments[slots[i].sid]
           /\ agents' = agents)]_vars

\* the capabilities of the specification that a token's grants give
Capabilities(token) ==
  {c \in {"publish", "subscribe", "data", "recording"} :
     \/ c = "publish" /\ "can_publish" \in token.grants
     \/ c = "subscribe" /\ "can_subscribe" \in token.grants
     \/ c = "data" /\ "can_publish_data" \in token.grants
     \/ c = "recording" /\ "recorder" \in token.grants}
AgentProfile == {"publish", "subscribe", "data", "recording"}
CallerProfile == {"publish", "subscribe"}

\* C24: every issued credential has the capabilities of one of the two
\* profiles: "agent" grants publish, subscribe, data and recording, "caller"
\* grants publish and subscribe only; a successful completeTransfer issues the
\* caller's credential for the final room with the caller profile and agent
\* B's with the agent profile.
C24_ProfileCapabilities ==
  /\ \A t \in last.tokens : Capabilities(t) \in {AgentProfile, CallerProfile}
  /\ (last.op = "complete" /\ last.res = "ok")
     => \A t \in last.tokens :
          /\ t.room = FinalRoom(last.sid)
          /\ t.identity \in Callers => Capabilities(t) = CallerProfile
          /\ t.identity \in AgentIds => Capabilities(t) = AgentProfile

\* C25: a session in TRANSFERRED or ENDED has no TransferRecord: the record
\* made by a successful initiateTransfer is discarded when the session
\* reaches one of these states.
C25_RecordDiscarded ==
  \A s \in DOMAIN sessions :
    sessions[s].state \in {TRANSFERRED, ENDED}
    => \A a \in AgentIds : IsAgentA(a) => s \notin DOMAIN requests[a]

\* C26: a session whose transfer room is set is in TRANSFERRING or a later
\* state, never in WAITING or CONNECTED.
C26_TransferRoomImpliesTransferring ==
  \A s \in DOMAIN sessions :
    sessions[s].transfer_room # NoRoom
    => sessions[s].state \in {TRANSFERRING, TRANSFERRED, ENDED}

\* C26 happens: a stored session has its transfer room
C26_Witness ==
  \E s \in DOMAIN sessions :
    /\ sessions[s].transfer_room # NoRoom
    /\ sessions[s].state = TRANSFERRING
    /\ last.op = "join" /\ last.res = "ok" /\ last.sid = s

\* the step is a join request for session s, answered at once
Joins(s) ==
  /\ issued' = issued + 1
  /\ slots' = slots
  /\ last'.op = "join"
  /\ last'.sid = s

\* C27: a session moves from WAITING to CONNECTED only in a successful join
\* with role A; a successful join appends the participant and changes the
\* state only from WAITING to CONNECTED and only with role A (not with role
\* B, not without role, not on a session in another state); a join on an
\* unknown session fails and changes nothing.
C27_JoinSemantics ==
  [][\A s \in SessionIds :
       /\ (/\ s \in DOMAIN sessions
           /\ sessions[s].state = WAITING
           /\ sessions'[s].state = CONNECTED)
          => (/\ Joins(s)
              /\ last'.res = "ok"
              /\ sessions'[s].participants =
                   Append(sessions[s].participants, <<last'.a, "agent_a">>))
       /\ (Joins(s) /\ last'.res = "ok")
          => (/\ s \in DOMAIN sessions
              /\ \E r \in Roles \cup {None} :
                   /\ sessions'[s].participants =
                        Append(sessions[s].participants, <<last'.a, r>>)
                   /\ sessions'[s].state =
                        IF r = "agent_a" /\ sessions[s].state = WAITING
                        THEN CONNECTED ELSE sessions[s].state)
       /\ (Joins(s) /\ s \notin DOMAIN sessions)
          => (/\ last'.res # "ok"
              /\ UNCHANGED <<agents, sessions, rooms, assignments, requests,
                             context>>)]_vars
\* a join with role B or without role left the session WAITING, and the
\* join with role A that followed connected it
C27_Witness ==
  /\ last.op = "join"
  /\ last.res = "ok"
  /\ last.sid \in DOMAIN sessions
  /\ Len(sessions[last.sid].participants) = 2
  /\ sessions[last.sid].participants[1][2] # "agent_a"
  /\ sessions[last.sid].participants[2] = <<last.a, "agent_a">>
  /\ sessions[last.sid].state = CONNECTED

\* the specialties a selection may ask for: none, those of the registered
\* agents, and one that no agent has
Specialties == {None, "Billing", "Technical", "General Support", "Sales"}
\* agent id can be selected for the role and the specialty
Matches(id, role, specialty) ==
  /\ id \in AgentIds
  /\ RoleOf(id) = role
  /\ agents[id].state = IDLE
  /\ (specialty = None \/ SpecialtyOf(id) = specialty)
RegistryIndex(id) == CHOOSE k \in 1..Len(Registry) : Registry[k] = id
FoundCorrectly(result, role, specialty) ==
  IF \A id \in AgentIds : ~Matches(id, role, specialty)
  THEN result = None
  ELSE /\ Matches(result, role, specialty)
       /\ \A id \in AgentIds :
            Matches(id, role, specialty) => RegistryIndex(result) <= RegistryIndex(id)

\* C28: in every reachable state, the selection of an agent A, and of an
\* agent B for every specialty and for none, returns NONE when no IDLE
\* agent of the role (with exactly that specialty) exists, and otherwise
\* the earliest-registered IDLE agent of the role with that specialty,
\* never an agent that is not IDLE or of the other role.
C28_FindAvailable ==
  /\ FoundCorrectly(GetAvailableAgentA, "agent_a", None)
  /\ \A sp \in Specialties : FoundCorrectly(GetAvailableAgentB(sp), "agent_b", sp)
\* an initiateTransfer to an unregistered identity selected the third
\* agent B, the two registered before it being in a call
C28_Witness ==
  /\ last.op = "initiate"
  /\ last.res = "ok"
  /\ last.sid \in DOMAIN sessions
  /\ sessions[last.sid].agent_b = "agent_b_general"
  /\ agents["agent_b_billing"].state = IN_CALL
  /\ agents["agent_b_technical"].state = IN_CALL
  /\ GetAvailableAgentB("Billing") = None
  /\ GetAvailableAgentB(None) = "agent_b_general"

\* C29: in an explainTransfer that succeeds, the step that receives the
\* explanation appends exactly one entry, the explanation, to agent A's
\* transcript and changes nothing else of any agent; the step that returns
\* success appends the transfer line and then the acknowledgment line to
\* agent B's transcript, stores the explanation in B's transfer context,
\* and changes no other agent.
C29_ExplainAppends ==
  [][\A i \in Slots :
       /\ (Resumes(i, "ex_explain") /\ slots'[i].pc = "ex_summary")
          => (/\ agents'[slots[i].a] =
                   [agents[slots[i].a] EXCEPT !.hist = Append(@, "explanation")]
              /\ \A id \in AgentIds \ {slots[i].a} : agents'[id] = agents[id]
              /\ context' = context)
       /\ (Resumes(i, "ex_summary") /\ Returns(i, "explain", "ok"))
          => (/\ agents'[slots[i].b] =
                   [agents[slots[i].b] EXCEPT
                      !.hist = @ \o <<"transfer", "acknowledgment">>]
              /\ \A id \in AgentIds \ {slots[i].b} : agents'[id] = agents[id]
              /\ slots[i].expl \in Explanations
              /\ context'[slots[i].b].explanation = slots[i].expl
              /\ \A id \in DOMAIN context \ {slots[i].b} :
                   context'[id] = context[id])]_vars
\* an explainTransfer succeeded: agent A's transcript is the greeting and
\* the explanation, agent B's the transfer line and the acknowledgment
C29_Witness ==
  /\ last.op = "explain"
  /\ last.res = "ok"
  /\ agents[last.a].hist = <<"greeting", "explanation">>
  /\ agents["agent_b_billing"].hist = <<"transfer", "acknowledgment">>
  /\ context["agent_b_billing"].explanation \in Explanations

\* C30: the step of completeTransfer that receives the Summarizer's answer
\* leaves session.call_summary as it was unless it stores a summary (a
\* failure does not clear or overwrite it), and goes on to the creation of
\* the final room whenever the session has a transfer target.
C30_SummaryFailureKeepsSummary ==
  [][\A i \in Slots :
       (Resumes(i, "ct_summary") /\ ~slots[i].stale)
       => (/\ sessions'[slots[i].lsid].call_summary
                \in Summaries \cup {sessions[slots[i].lsid].call_summary}
           /\ CompletePrecheck(sessions, slots[i].sid) = "room"
                => slots'[i].pc = "ct_room")]_vars

IsPrefix(p, q) == Len(p) <= Len(q) /\ SubSeq(q, 1, Len(p)) = p

\* C31: no step shortens or rewrites an agent's transcript: the transcript
\* before the step is a prefix of the transcript after it.
C31_TranscriptAppendOnly ==
  [][\A id \in AgentIds : IsPrefix(agents[id].hist, agents'[id].hist)]_vars

\* a TransferRecord is stored for session s
HasRecord(s) == \E a \in AgentIds : IsAgentA(a) /\ s \in DOMAIN requests[a]

\* C32: every session that is not ENDED is assigned to exactly one agent:
\* to its agent_a while no TransferRecord is stored for it, and to its
\* agent_b from then on.
C32_OneResponsibleAgent ==
  \A s \in DOMAIN sessions :
    Live(s) => /\ s \in DOMAIN assignments
               /\ assignments[s] = IF HasRecord(s) THEN sessions[s].agent_b
                                   ELSE sessions[s].agent_a

\* no request is in progress
Quiescent == \A i \in Slots : slots[i].pc = "idle"

\* C33: whenever no request is in progress, a session is TRANSFERRING
\* exactly when its agent_a is IN_TRANSFER with that session as current
\* session and a TransferRecord is stored for it.
C33_MachinesConsistent ==
  \A s \in DOMAIN sessions :
    (Quiescent /\ sessions[s].state = TRANSFERRING)
    <=> (/\ sessions[s].agent_a \in AgentIds
         /\ agents[sessions[s].agent_a].state = IN_TRANSFER
         /\ agents[sessions[s].agent_a].cur = s
         /\ IsAgentA(sessions[s].agent_a)
         /\ s \in DOMAIN requests[sessions[s].agent_a]
         /\ Quiescent)

\* C34: the agent_b of every TRANSFERRED session holds a transfer context:
\* completeTransfer does not succeed for a session whose agent B was never
\* briefed by a successful explainTransfer.
C34_WarmTransfer ==
  \A s \in DOMAIN sessions :
    sessions[s].state = TRANSFERRED
    => (/\ sessions[s].agent_b \in DOMAIN context
        /\ context[sessions[s].agent_b] # NoContext)

\* C35: when completeTransfer(s, a) has failed at the creation of the final
\* room and s is still TRANSFERRING with its TransferRecord, the retry of
\* completeTransfer(s, a), received with no other request in progress, is
\* not refused: it goes on to the summary and the room.
C35_CompleteRetry ==
  [][\A i \in Slots, s \in DOMAIN sessions, a \in AgentIds :
       (/\ Quiescent
        /\ last.op = "complete" /\ last.sid = s /\ last.a = a
        /\ last.res = "error"
        /\ sessions[s].state = TRANSFERRING
        /\ IsAgentA(a)
        /\ sessions[s].agent_a = a
        /\ s \in DOMAIN requests[a]
        /\ Receives(i, "complete", s, a))
       => slots'[i].pc # "idle"]_vars

Phases == {"initiate", "explain", "complete"}
\* the step is a step of handler i, which runs a transfer phase whose
\* sessionId argument is s
PhaseStep(i, s) ==
  /\ slots'[i].pc # slots[i].pc
  /\ LET h == IF slots[i].pc = "idle" THEN slots'[i] ELSE slots[i]
     IN h.op \in Phases /\ h.sid = s

\* C36: no step of initiateTransfer, explainTransfer or completeTransfer
\* for session s changes the state, agent_b, transfer_room or
\* TransferRecord of another session.
C36_PhaseActsOnNamedSession ==
  [][\A i \in Slots, s \in SessionIds :
       PhaseStep(i, s)
       => \A t \in DOMAIN sessions \ {s} :
            /\ sessions'[t].state = sessions[t].state
            /\ sessions'[t].agent_b = sessions[t].agent_b
            /\ sessions'[t].transfer_room = sessions[t].transfer_room
            /\ \A a \in DOMAIN requests :
                 /\ (t \in DOMAIN requests'[a]) <=> (t \in DOMAIN requests[a])
                 /\ t \in DOMAIN requests[a] => requests'[a][t] = requests[a][t]]_vars

\* C37: no two sessions in state TRANSFERRING have the same agent_b.
C37_OneTransferPerAgentB ==
  \A s, t \in DOMAIN sessions :
    (/\ s # t
     /\ sessions[s].state = TRANSFERRING
     /\ sessions[t].state = TRANSFERRING)
    => sessions[s].agent_b # sessions[t].agent_b

\* C38: a createSession whose agent is not a registered agent A in state
\* IDLE (a hint that names an unregistered identity, an agent B or a busy
\* agent) does not succeed, stores no session and changes no agent.
C38_HintMustBeIdleAgentA ==
  [][\A i \in Slots :
       (/\ Resumes(i, "cc_room")
        /\ ~(IsAgentA(slots[i].a) /\ agents[slots[i].a].state = IDLE))
       => (/\ last'.res # "ok"
           /\ sessions' = sessions
           /\ agents' = agents)]_vars

\* C39: no agent's current session is a session in state ENDED.
C39_EndedSessionReleased ==
  \A id \in AgentIds :
    agents[id].cur \in DOMAIN sessions => sessions[agents[id].cur].state # ENDED

\* C40: when explainTransfer returns success, the call summary in agent
\* B's transfer context is the summary of the TransferRecord of agent A's
\* current session, the record the explanation was generated from.
C40_SummaryFromRecord ==
  [][\A i \in Slots :
       (/\ Resumes(i, "ex_summary")
        /\ Returns(i, "explain", "ok")
        /\ agents[slots[i].a].cur \in DOMAIN requests[slots[i].a])
       => context'[slots[i].b].call_summary =
            requests[slots[i].a][agents[slots[i].a].cur].call_summary]_vars

====
